---- MODULE Spec2Model ----
(***************************************************************************)
(* The two reward functions of the GRPO notebook (format_reward and the    *)
(* two successive definitions of correctness_reward), modelled as          *)
(* operators over character strings, and a state machine that draws a      *)
(* batch of completions with its solution column and calls them in any     *)
(* order, any number of times.                                             *)
(*                                                                         *)
(* Three specifications share the variables: Spec calls the reward         *)
(* functions, SpecData runs the data cells of the notebooks (chat          *)
(* template, format_example, to_conversation, format_dataset), SpecTrain   *)
(* accumulates gradients and computes the walk-through's advantages.       *)
(*                                                                         *)
(* Further specifications reuse the same actions on other inputs: SpecErr  *)
(* calls the reward functions on malformed completions, SpecTarget on the  *)
(* targets to_conversation builds for drawn rows, SpecCells runs the cells *)
(* of the GRPO notebook in order up to the trainer, and SpecTemplate       *)
(* applies the chat template to lists of messages.                         *)
(*                                                                         *)
(* Rewards are the floats 1.0 and 0.0 of the source, written 1 and 0.      *)
(* String positions are 0-based as in Python; SubSeq is 1-based.           *)
(***************************************************************************)
EXTENDS Integers, Sequences, FiniteSets, TLC

VARIABLES
    completions,  \* the `completions` argument: a list of completions, each a list of messages
    solutions,    \* the dataset column passed as keyword argument beside the completions
    column,       \* the keyword the column is passed under: "solution" or "solutions"
    called,       \* the reward function whose call returned last, "none" before any call
    returned,     \* the list that call returned
    seen,         \* per reward function, the set of lists it has returned so far
    ncalls,       \* the number of calls made so far
    raised,       \* the exception that ended the last call, "" when it returned
    nb,           \* the notebook section being executed
    cell,         \* the last cell of that section that has run
    dataset,      \* the rows of `dataset`
    produced,     \* what the mapping function returned, one record per row it was given
    output,       \* the result of the last apply_chat_template call
    args,         \* the training arguments: batch size per device and accumulation steps
    micro,        \* the micro-batches accumulated since the last optimizer update
    samples,      \* the examples whose gradients are accumulated since the last update
    updates,      \* the number of optimizer updates made
    effective,    \* the number of examples the last optimizer update was computed from
    group_rewards, \* the walk-through's rewards: one list per prompt, one reward per completion
    ddof,         \* the divisor of std: 0 divides by G (population), 1 by G - 1 (sample)
    advantages,   \* the advantages computed from the rewards, one result per group
    globals,      \* the notebook's namespace: the function each reward name is bound to
    reward_funcs  \* the list of functions GRPOTrainer was given, <<>> before it is built

rewardVars == <<completions, solutions, column, called, returned, seen, ncalls, raised>>

dataVars == <<cell, dataset, produced, output>>

trainVars == <<args, micro, samples, updates, effective, group_rewards, ddof, advantages>>

bindVars == <<globals, reward_funcs>>

vars == <<rewardVars, nb, dataVars, trainVars, bindVars>>

----------------------------------------------------------------------------
(* Bounds of the explored inputs. *)

\* the longest generated content, in pieces
MaxPieces == 4

\* the largest drawn batch, and the longest drawn solution column
MaxBatch == 2

\* the number of calls made on one input
MaxCalls == 3

----------------------------------------------------------------------------
(* The notebook's three labelled example completions. *)

completion_1 ==
    << [role |-> "assistant",
        content |-> "<think>Alright, let's break this down. The total displacement of the runner can be calculated using the formula: displacement = velocity * time. In this case, the velocity is 8 m/s and the time is 15 seconds. So, the total displacement is 8 m/s * 15 s = 120 meters.</think> The total displacement of the runner is 120 meters."] >>

completion_2 ==
    << [role |-> "assistant",
        content |-> "The total displacement of the runner is 120 meters. To calculate this, we use the formula: displacement = velocity * time. In this case, the velocity is 8 m/s and the time is 15 seconds. So, the total displacement is 8 m/s * 15 s = 120 meters."] >>

completion_3 ==
    << [role |-> "assistant",
        content |-> "<think>Okay, let's analyze the problem. The formula for displacement is: displacement = velocity * time. Here, the velocity is 8 m/s and the time is 15 seconds. So, the total displacement would be 8 m/s * 15 s = 80 meters.</think> The total displacement of the runner is 80 meters."] >>

\* the list of acceptable answers of the usage cell
AcceptableAnswers == <<"120 m", "120.0 m", "120 meters", "120m", "120.0 meters">>

----------------------------------------------------------------------------
(* Python's str operations. *)

Min(a, b) == IF a <= b THEN a ELSE b

\* s[a:b], 0 <= a <= b <= len(s)
Slice(s, a, b) == SubSeq(s, a + 1, b)

\* s.find(sub, start): the lowest index >= start where sub occurs in s, or -1
find(s, sub, start) ==
    LET hits == {i \in start..(Len(s) - Len(sub)) : Slice(s, i, i + Len(sub)) = sub}
    IN  IF hits = {} THEN -1 ELSE CHOOSE i \in hits : \A j \in hits : i <= j

\* contains, with s.startswith(sub) written for `sub in s`
contains_startswith(s, sub) == Len(sub) <= Len(s) /\ Slice(s, 0, Len(sub)) = sub

\* contains, with `sub == s` written for `sub in s`
contains_equal(s, sub) == s = sub

\* `sub in s` for two strings
contains(s, sub) == find(s, sub, 0) # -1

\* zip, with every element of a paired with b[0]
zip_first(a, b) == [i \in 1..Min(Len(a), Len(b)) |-> <<a[i], b[1]>>]

\* zip, with the last pair dropped
zip_short(a, b) == [i \in 1..(Min(Len(a), Len(b)) - 1) |-> <<a[i], b[i]>>]

\* zip(a, b): pairs up to the shorter of the two lists
zip(a, b) == [i \in 1..Min(Len(a), Len(b)) |-> <<a[i], b[i]>>]

\* any, with all(matches) written for it
any_all(matches) == \A i \in 1..Len(matches) : matches[i]

\* any, with the list's own truth value (`if matches`) written for it
any_truthy(matches) == matches # <<>>

\* any(matches) for a list of booleans
any(matches) == \E i \in 1..Len(matches) : matches[i]

----------------------------------------------------------------------------
(* re.match(pattern, content, re.DOTALL | re.MULTILINE) for the pattern    *)
(*     ^<think>(?!.*<think>)(.*?)</think>.*$                               *)
(* Each element of the pattern is an operator over a string s and 0-based  *)
(* positions; a match is a choice of positions that satisfies them all     *)
(* (the backtracking search of the regex engine finds one if one exists).  *)

Flags == {"DOTALL", "MULTILINE"}

\* a literal of the pattern at position p
LiteralAt(s, p, lit) == p + Len(lit) <= Len(s) /\ Slice(s, p, p + Len(lit)) = lit

\* DotMatches, with re.DOTALL left out of the flags
DotMatches_NoDotall(c) == c # "\n"

\* `.` matches character c: any character under DOTALL, else any but a newline
DotMatches(c) == "DOTALL" \in Flags \/ c # "\n"

\* `.*` (or `.*?`) consumes s[a:b]
DotRun(s, a, b) == \A p \in a..(b - 1) : DotMatches(Slice(s, p, p + 1))

\* `^` at position p: the start of the string, under MULTILINE also after a newline
Caret(s, p) == p = 0 \/ ("MULTILINE" \in Flags /\ Slice(s, p - 1, p) = "\n")

\* `$` at position p: the end of the string or before its final newline,
\* under MULTILINE also before any newline
Dollar(s, p) ==
    \/ p = Len(s)
    \/ p = Len(s) - 1 /\ Slice(s, p, p + 1) = "\n"
    \/ "MULTILINE" \in Flags /\ p < Len(s) /\ Slice(s, p, p + 1) = "\n"

\* NegativeLookahead, with the lookahead left out of the pattern
NegativeLookahead_Dropped(s, p) == TRUE

\* `(?!.*<think>)` at position p: no <think> reachable from p by a run of `.`
NegativeLookahead(s, p) ==
    ~ \E i \in p..Len(s) : LiteralAt(s, i, "<think>") /\ DotRun(s, p, i)

\* `(.*?)</think>.*$` from position p
ReasoningAndAnswer(s, p) ==
    \E j \in p..Len(s) :
        /\ LiteralAt(s, j, "</think>")
        /\ DotRun(s, p, j)
        /\ \E k \in (j + Len("</think>"))..Len(s) :
               Dollar(s, k) /\ DotRun(s, j + Len("</think>"), k)

\* re_match, with re.search written for re.match: the pattern is tried at
\* every position
re_match_search(s) ==
    \E p \in 0..Len(s) :
        /\ Caret(s, p)
        /\ LiteralAt(s, p, "<think>")
        /\ NegativeLookahead(s, p + Len("<think>"))
        /\ ReasoningAndAnswer(s, p + Len("<think>"))

\* re.match: the pattern is tried at position 0 only
re_match(s) ==
    /\ Caret(s, 0)
    /\ LiteralAt(s, 0, "<think>")
    /\ NegativeLookahead(s, Len("<think>"))
    /\ ReasoningAndAnswer(s, Len("<think>"))

----------------------------------------------------------------------------
(* The reward functions. *)

\* Content, with the content of the last message taken (completion[-1])
Content_LastMessage(completion) == completion[Len(completion)].content

\* completion[0]["content"]
Content(completion) == completion[1].content

\* the exception completion[0]["content"] raises, "" when it has a value
ContentError(completion) ==
    IF completion = <<>> THEN "IndexError"
    ELSE IF "content" \notin DOMAIN completion[1] THEN "KeyError"
    ELSE ""

\* the exception that ends a loop reading the content of each of cs in order:
\* that of the first completion whose content cannot be read
FirstError(cs) ==
    LET failing == {i \in 1..Len(cs) : ContentError(cs[i]) # ""}
    IN  IF failing = {} THEN ""
        ELSE ContentError(cs[CHOOSE i \in failing : \A j \in failing : i <= j])

\* the completions that `for completion, ... in zip(completions, column)` visits
Zipped(cs, col) == SubSeq(cs, 1, Min(Len(cs), Len(col)))

format_reward(cs) ==
    LET completion_contents == [i \in 1..Len(cs) |-> Content(cs[i])]
        matches == [i \in 1..Len(cs) |-> re_match(completion_contents[i])]
    IN  [i \in 1..Len(cs) |-> IF matches[i] THEN 1 ELSE 0]

\* NewRewards, with the list kept from the previous call (a list created once,
\* outside the function body)
NewRewards_Stale == returned

\* `rewards = []`, the first statement of both definitions of correctness_reward
NewRewards == <<>>

\* SingleReward, with the operands of `in` swapped
SingleReward_Swapped(content, ground_truth) ==
    IF contains(ground_truth, content) THEN 1 ELSE 0

\* the first definition: one ground truth per completion
SingleReward(content, ground_truth) ==
    IF contains(content, ground_truth) THEN 1 ELSE 0

RECURSIVE SingleLoop(_, _)
SingleLoop(rewards, pairs) ==
    IF pairs = <<>> THEN rewards
    ELSE LET completion == Head(pairs)[1]
             ground_truth == Head(pairs)[2]
             content == Content(completion)
             reward == SingleReward(content, ground_truth)
         IN  SingleLoop(Append(rewards, reward), Tail(pairs))

correctness_reward_single(cs, solution) == SingleLoop(NewRewards, zip(cs, solution))

\* ListReward, with sum(matches) written for `1.0 if any(matches) else 0.0`
ListReward_Sum(content, ground_truths) ==
    Cardinality({k \in 1..Len(ground_truths) : contains(content, ground_truths[k])})

\* ListReward, with only the first variant of the list compared
ListReward_FirstOnly(content, ground_truths) ==
    IF ground_truths # <<>> /\ contains(content, ground_truths[1]) THEN 1 ELSE 0

\* ListReward, with only the text after the last </think> compared to the variants
ListReward_FinalAnswerOnly(content, ground_truths) ==
    LET closes == {p \in 0..(Len(content) - Len("</think>")) :
                       Slice(content, p, p + Len("</think>")) = "</think>"}
        start == IF closes = {} THEN 0
                 ELSE Len("</think>") + CHOOSE p \in closes : \A q \in closes : q <= p
        answer == Slice(content, start, Len(content))
    IN  IF \E k \in 1..Len(ground_truths) : contains(answer, ground_truths[k]) THEN 1 ELSE 0

\* ListReward, with the reward given only to a content that format_reward accepts
ListReward_WellFormedOnly(content, ground_truths) ==
    IF re_match(content) /\ \E k \in 1..Len(ground_truths) : contains(content, ground_truths[k])
    THEN 1 ELSE 0

\* the second definition, which replaces the first: a list of acceptable
\* answers per completion
ListReward(content, ground_truths) ==
    LET matches == [k \in 1..Len(ground_truths) |-> contains(content, ground_truths[k])]
    IN  IF any(matches) THEN 1 ELSE 0

RECURSIVE ListLoop(_, _)
ListLoop(rewards, pairs) ==
    IF pairs = <<>> THEN rewards
    ELSE LET completion == Head(pairs)[1]
             ground_truths == Head(pairs)[2]
             content == Content(completion)
             reward == ListReward(content, ground_truths)
         IN  ListLoop(Append(rewards, reward), Tail(pairs))

correctness_reward(cs, sols) == ListLoop(NewRewards, zip(cs, sols))

----------------------------------------------------------------------------
(* The inputs. *)

\* no apply_chat_template call has been made
NoOutput == [raised |-> "", text |-> ""]

\* the data cells have not run
DataIdle ==
    /\ cell = "none"
    /\ dataset = <<>>
    /\ produced = <<>>
    /\ output = NoOutput

\* no trainer has been configured and no advantage computed
TrainIdle ==
    /\ args = [per_device_train_batch_size |-> 0, gradient_accumulation_steps |-> 0]
    /\ micro = 0
    /\ samples = 0
    /\ updates = 0
    /\ effective = 0
    /\ group_rewards = <<>>
    /\ ddof = 0
    /\ advantages = <<>>

\* no cell that defines a reward function has run, and no trainer is built
BindIdle ==
    /\ globals = [name \in {"format_reward", "correctness_reward"} |-> "undefined"]
    /\ reward_funcs = <<>>

\* no reward function has been called and none has arguments
RewardsIdle ==
    /\ completions = <<>>
    /\ solutions = <<>>
    /\ column = "solutions"
    /\ called = "none"
    /\ returned = <<>>
    /\ seen = [f \in {"format_reward", "correctness_reward_single", "correctness_reward"} |-> {}]
    /\ ncalls = 0
    /\ raised = ""

RewardFunctions == {"format_reward", "correctness_reward_single", "correctness_reward"}

\* fragments a generated completion is made of
Pieces == {"<think>", "</think>", "\n", "120 m"}

RECURSIVE Join(_)
Join(ps) == IF ps = <<>> THEN "" ELSE Head(ps) \o Join(Tail(ps))

SeqsUpTo(S, n) == UNION {[1..k -> S] : k \in 0..n}

\* every content of at most MaxPieces pieces
GeneratedContents == {Join(ps) : ps \in SeqsUpTo(Pieces, MaxPieces)}

Completion(content) == << [role |-> "assistant", content |-> content] >>

\* lists of acceptable answers
AnswerLists ==
    { <<>>, <<"">>, <<"120 m">>, <<"120 meters">>, <<"120m", "120 M">>,
      <<"80 meters", "120 m">>, AcceptableAnswers }

\* completions and columns a batch is drawn from
BatchCompletions == { completion_1, completion_2, completion_3 }

BatchAnswerLists == { <<"80 meters">>, AcceptableAnswers }

BatchAnswers == { "120 meters", "80 meters" }

\* one generated completion with its list of acceptable answers
InitGenerated ==
    /\ completions \in {<<Completion(c)>> : c \in GeneratedContents}
    /\ column = "solutions"
    /\ solutions \in {<<l>> : l \in AnswerLists}

\* one generated completion with its single answer, for the first definition
\* of correctness_reward
InitGeneratedSingle ==
    /\ completions \in {<<Completion(c)>> : c \in GeneratedContents}
    /\ column = "solution"
    /\ solutions \in {<<a>> : a \in BatchAnswers}

\* a batch for the second definition of correctness_reward; the column
\* may be shorter or longer than the batch
InitBatch ==
    /\ completions \in SeqsUpTo(BatchCompletions, MaxBatch)
    /\ column = "solutions"
    /\ solutions \in SeqsUpTo(BatchAnswerLists, MaxBatch)

\* a batch for the first definition of correctness_reward
InitBatchSingle ==
    /\ completions \in SeqsUpTo(BatchCompletions, MaxBatch)
    /\ column = "solution"
    /\ solutions \in SeqsUpTo(BatchAnswers, MaxBatch)

\* completions that state an acceptable variant only inside the think block,
\* or only as the beginning of a longer word
MisplacedContents ==
    { "<think>8 m/s * 15 s = 120 meters</think> The total displacement of the runner is 80 meters.",
      "<think>8 m/s * 15 s</think> The runner covers 120 miles.",
      "The runner covers 120 miles." }

\* a batch of such completions, each with the same list of acceptable answers
InitMisplaced ==
    /\ completions \in (SeqsUpTo({Completion(c) : c \in MisplacedContents}, MaxBatch) \ {<<>>})
    /\ column = "solutions"
    /\ solutions \in {[i \in 1..Len(completions) |-> l] : l \in {<<"120 m">>, AcceptableAnswers}}

\* contents of the messages of a conversational completion
TurnContents == {"<think></think>120 m", "120 m", "<think>"}

\* the completions with c as content of the first message: the role of that
\* message varies, and a second message may follow
Conversations(c) ==
    { <<[role |-> r, content |-> c]>> : r \in {"assistant", "user"} }
        \cup { <<[role |-> "assistant", content |-> c], [role |-> r, content |-> d]>> :
                  r \in {"assistant", "user"}, d \in TurnContents }

\* a batch of two completions with the same list of acceptable answers
InitConversations ==
    /\ completions \in { <<a, b>> : a, b \in UNION {Conversations(c) : c \in TurnContents} }
    /\ column = "solutions"
    /\ solutions \in { <<l, l>> : l \in {<<"120 m">>, <<"80 meters">>} }

\* the notebook's own calls: the three examples with one answer each, and
\* completion_1 with the list of acceptable answers
InitNotebook ==
    \/ /\ completions = <<completion_1, completion_2, completion_3>>
       /\ column = "solution"
       /\ solutions = <<"120 meters", "120 meters", "120 meters">>
    \/ /\ completions = <<completion_1>>
       /\ column = "solutions"
       /\ solutions = <<AcceptableAnswers>>

Init ==
    /\ \/ InitGenerated \/ InitGeneratedSingle \/ InitBatch \/ InitBatchSingle \/ InitNotebook
       \/ InitMisplaced \/ InitConversations
    /\ called = "none"
    /\ returned = <<>>
    /\ seen = [f \in RewardFunctions |-> {}]
    /\ ncalls = 0
    /\ raised = ""
    /\ nb = "grpo_rewards"
    /\ DataIdle
    /\ TrainIdle
    /\ BindIdle

----------------------------------------------------------------------------
(* The calls. Neither function assigns to its arguments or to a global.   *)

Return(f, rewards) ==
    /\ ncalls < MaxCalls
    /\ ncalls' = ncalls + 1
    /\ called' = f
    /\ returned' = rewards
    /\ raised' = ""
    /\ seen' = [seen EXCEPT ![f] = @ \cup {rewards}]
    /\ UNCHANGED <<completions, solutions, column>>
    /\ UNCHANGED <<nb, dataVars, trainVars, bindVars>>

\* Raise, with the call returning a list in which 0.0 stands for every completion
Raise_ZeroSubstituted(f, exception) ==
    /\ ncalls < MaxCalls
    /\ ncalls' = ncalls + 1
    /\ called' = f
    /\ returned' = [i \in 1..Len(completions) |-> 0]
    /\ raised' = ""
    /\ UNCHANGED <<seen, completions, solutions, column>>
    /\ UNCHANGED <<nb, dataVars, trainVars, bindVars>>

\* neither function has a try statement: an exception raised in its body ends
\* the call, and the list built so far is lost with the call's frame
Raise(f, exception) ==
    /\ ncalls < MaxCalls
    /\ ncalls' = ncalls + 1
    /\ called' = f
    /\ raised' = exception
    /\ UNCHANGED <<returned, seen, completions, solutions, column>>
    /\ UNCHANGED <<nb, dataVars, trainVars, bindVars>>

\* format_reward(completions, **kwargs): the column is swallowed by kwargs
CallFormatReward ==
    /\ column \in {"solution", "solutions"}
    /\ IF FirstError(completions) # ""
       THEN Raise("format_reward", FirstError(completions))
       ELSE Return("format_reward", format_reward(completions))

\* correctness_reward(completions, solution=...), first definition
CallCorrectnessRewardSingle ==
    /\ column = "solution"
    /\ IF FirstError(Zipped(completions, solutions)) # ""
       THEN Raise("correctness_reward_single", FirstError(Zipped(completions, solutions)))
       ELSE Return("correctness_reward_single",
                   correctness_reward_single(completions, solutions))

\* correctness_reward(completions, solutions=...), second definition
CallCorrectnessReward ==
    /\ column = "solutions"
    /\ IF FirstError(Zipped(completions, solutions)) # ""
       THEN Raise("correctness_reward", FirstError(Zipped(completions, solutions)))
       ELSE Return("correctness_reward", correctness_reward(completions, solutions))

Next == CallFormatReward \/ CallCorrectnessRewardSingle \/ CallCorrectnessReward

Spec == Init /\ [][Next]_vars

----------------------------------------------------------------------------
(* What the properties are stated with: occurrences of a string in a      *)
(* content, and the per-completion view of a call.                        *)

\* the 0-based positions where t occurs in s
Occurrences(s, t) == {p \in 0..(Len(s) - Len(t)) : SubSeq(s, p + 1, p + Len(t)) = t}

Opens(s) == Occurrences(s, "<think>")

Closes(s) == Occurrences(s, "</think>")

\* the <think>...</think> spans of s: an opening tag and a closing tag after it
Spans(s) == {sp \in Opens(s) \X Closes(s) : sp[1] + Len("<think>") <= sp[2]}

\* s contains exactly one <think>...</think> span, followed by trailing text
ExactlyOneSpan(s) == Cardinality(Opens(s)) = 1 /\ Spans(s) # {}

\* s contains exactly one span, and it starts at the first character
ExactlyOneLeadingSpan(s) == Opens(s) = {0} /\ Spans(s) # {}

\* a second <think> lies inside a span of s
NestedOpen(s) == \E sp \in Spans(s) : \E k \in Opens(s) : sp[1] < k /\ k < sp[2]

\* some variant of the list occurs in s
SomeVariantOccurs(s, variants) ==
    \E k \in 1..Len(variants) : Occurrences(s, variants[k]) # {}

\* the i-th completion of the batch has a score in the returned list
Scored(i) == i \in 1..Len(completions) /\ i \in DOMAIN returned

\* the results of evaluating each element alone, collected in order
Collected(single, n) == [i \in 1..n |-> single[i][1]]

----------------------------------------------------------------------------
(* C1 as stated: every completion whose content contains exactly one      *)
(* <think>...</think> span followed by trailing text gets 1.0 from        *)
(* format_reward. Fails for a span that does not start the content.       *)
C1_AnySingleSpanScoresOne ==
    called = "format_reward" =>
        \A i \in 1..Len(completions) :
            ExactlyOneSpan(Content(completions[i])) => Scored(i) /\ returned[i] = 1

(* C1, amended: every completion whose content begins with its only       *)
(* <think> and has a </think> after it (followed by any trailing text)     *)
(* gets 1.0 from format_reward.                                            *)
C1_LeadingSingleSpanScoresOne ==
    called = "format_reward" =>
        \A i \in 1..Len(completions) :
            ExactlyOneLeadingSpan(Content(completions[i])) => Scored(i) /\ returned[i] = 1

C1_Witness ==
    /\ called = "format_reward"
    /\ \E i \in 1..Len(completions) :
           LET s == Content(completions[i])
           IN  /\ ExactlyOneLeadingSpan(s)
               /\ Occurrences(s, "\n") # {}
               /\ \E sp \in Spans(s) : sp[2] + Len("</think>") < Len(s)
               /\ Scored(i) /\ returned[i] = 1

(* C2: format_reward returns 0.0 for every completion whose content has   *)
(* no <think>...</think> span, and for every completion with a second     *)
(* <think> nested inside a span.                                           *)
C2_NoSpanOrNestedScoresZero ==
    called = "format_reward" =>
        \A i \in 1..Len(completions) :
            LET s == Content(completions[i])
            IN  (Spans(s) = {} \/ NestedOpen(s)) => Scored(i) /\ returned[i] = 0

C2_Witness ==
    /\ called = "format_reward"
    /\ \E i \in 1..Len(completions) :
           LET s == Content(completions[i])
           IN  0 \in Opens(s) /\ NestedOpen(s) /\ Scored(i) /\ returned[i] = 0

(* C3: the list-variant correctness_reward gives a completion 1.0 exactly *)
(* when some variant of its list occurs verbatim as a contiguous          *)
(* substring of its content, and 0.0 otherwise.                            *)
C3_OneIffSomeVariantOccurs ==
    called = "correctness_reward" =>
        \A i \in 1..Min(Len(completions), Len(solutions)) :
            /\ Scored(i)
            /\ returned[i] =
                   IF SomeVariantOccurs(Content(completions[i]), solutions[i]) THEN 1 ELSE 0

C3_Witness ==
    /\ called = "correctness_reward"
    /\ \E i \in 1..Min(Len(completions), Len(solutions)) :
           LET s == Content(completions[i])
           IN  /\ Scored(i) /\ returned[i] = 1
               /\ \E k \in 1..Len(solutions[i]) : Occurrences(s, solutions[i][k]) = {}
               /\ \E k \in 1..Len(solutions[i]) :
                      /\ solutions[i][k] # ""
                      /\ Occurrences(s, solutions[i][k]) # {}
                      /\ 0 \notin Occurrences(s, solutions[i][k])

\* the completion has the form "<think>...</think> The total displacement of
\* the runner is 120 meters."
RunnerAnswer120(s) ==
    LET tail == "</think> The total displacement of the runner is 120 meters."
    IN  /\ 0 \in Opens(s)
        /\ Len(s) >= Len("<think>") + Len(tail)
        /\ SubSeq(s, Len(s) - Len(tail) + 1, Len(s)) = tail

(* C4: a completion "<think>...</think> The total displacement of the     *)
(* runner is 120 meters." scored against the acceptable answers            *)
(* ["120 m", "120.0 m", "120 meters", "120m", "120.0 meters"] gets 1.0.    *)
C4_RunnerAnswerScoresOne ==
    called = "correctness_reward" =>
        \A i \in 1..Min(Len(completions), Len(solutions)) :
            (RunnerAnswer120(Content(completions[i])) /\ solutions[i] = AcceptableAnswers)
                => Scored(i) /\ returned[i] = 1

C4_Witness ==
    /\ called = "correctness_reward"
    /\ completions = <<completion_1>>
    /\ solutions = <<AcceptableAnswers>>
    /\ RunnerAnswer120(Content(completions[1]))
    /\ returned = <<1>>

(* C5: the notebook's completion_3, which states "80 meters" in its        *)
(* reasoning and in its final answer, scored against the same acceptable   *)
(* answers gets 0.0.                                                       *)
C5_EightyMetersScoresZero ==
    called = "correctness_reward" =>
        \A i \in 1..Min(Len(completions), Len(solutions)) :
            (completions[i] = completion_3 /\ solutions[i] = AcceptableAnswers)
                => Scored(i) /\ returned[i] = 0

C5_Witness ==
    /\ called = "correctness_reward"
    /\ completions = <<completion_3>>
    /\ solutions = <<AcceptableAnswers>>
    /\ Cardinality(Occurrences(Content(completion_3), "80 meters")) = 2
    /\ returned = <<0>>

(* C6: for format_reward and for correctness_reward, the list returned    *)
(* for a batch of N completions (with their N solution lists) is the list  *)
(* of the results of evaluating each completion alone, as a batch of one,  *)
(* in order.                                                               *)
C6_BatchIsCollectedSingles ==
    /\ called = "format_reward" =>
           returned = Collected([i \in 1..Len(completions) |->
                                     format_reward(<<completions[i]>>)],
                                Len(completions))
    /\ (called = "correctness_reward" /\ Len(completions) = Len(solutions)) =>
           returned = Collected([i \in 1..Len(completions) |->
                                     correctness_reward(<<completions[i]>>, <<solutions[i]>>)],
                                Len(completions))

C6_Witness ==
    /\ called = "correctness_reward"
    /\ Len(completions) = Len(solutions)
    /\ Len(completions) >= 2
    /\ \E i, j \in DOMAIN returned :
           /\ returned[i] = 1 /\ returned[j] = 0
           /\ solutions[i] # solutions[j]

(* C7: the reward functions are pure: a call returns the list that every   *)
(* earlier call of the same function on the same arguments returned,       *)
(* whatever was called in between, and no call changes its arguments.      *)
C7_CallsArePure ==
    [][ /\ completions' = completions
        /\ solutions' = solutions
        /\ column' = column
        /\ seen[called'] # {} => returned' \in seen[called'] ]_vars

C7_Witness ==
    /\ ncalls >= 3
    /\ Cardinality({f \in RewardFunctions : seen[f] # {}}) = 2
    /\ \A f \in RewardFunctions : Cardinality(seen[f]) <= 1
    /\ returned # <<>>

(* C8 as stated: every call of format_reward and of correctness_reward     *)
(* returns exactly one scalar per completion passed in, whatever the       *)
(* length of the solutions list. Fails when the solutions list is shorter  *)
(* than the completions list.                                              *)
C8_OneScalarPerCompletion ==
    called \in {"format_reward", "correctness_reward"} =>
        Len(returned) = Len(completions)

(* C8, amended: format_reward returns one scalar per completion;           *)
(* correctness_reward returns one scalar per pair of zip(completions,      *)
(* solutions), that is min(len(completions), len(solutions)) scalars; in   *)
(* both the i-th scalar is the score of the i-th completion (against the   *)
(* i-th solution list).                                                    *)
C8_OneScalarPerZippedPair ==
    /\ called = "format_reward" =>
           /\ Len(returned) = Len(completions)
           /\ \A i \in 1..Len(completions) :
                  returned[i] = format_reward(<<completions[i]>>)[1]
    /\ called = "correctness_reward" =>
           /\ Len(returned) = Min(Len(completions), Len(solutions))
           /\ \A i \in 1..Min(Len(completions), Len(solutions)) :
                  /\ i \in DOMAIN returned
                  /\ returned[i] = ListReward(Content(completions[i]), solutions[i])

C8_Witness ==
    /\ called = "correctness_reward"
    /\ Len(solutions) >= 1
    /\ Len(solutions) < Len(completions)
    /\ Len(returned) = Len(solutions)

(* C9: every element of every list returned by format_reward or by        *)
(* correctness_reward is 0.0 or 1.0.                                       *)
C9_ScoresAreBinary ==
    called # "none" => \A i \in DOMAIN returned : returned[i] \in {0, 1}

C9_Witness ==
    /\ called = "correctness_reward"
    /\ \E i \in DOMAIN returned :
           /\ returned[i] = 1
           /\ Cardinality({k \in 1..Len(solutions[i]) :
                              Occurrences(Content(completions[i]), solutions[i][k]) # {}}) >= 2
    /\ \E j \in DOMAIN returned : returned[j] = 0

\* the notebook's call on its three examples
NotebookExamples ==
    /\ completions = <<completion_1, completion_2, completion_3>>
    /\ column = "solution"
    /\ solutions = <<"120 meters", "120 meters", "120 meters">>

(* C10: on the notebook's three examples format_reward returns            *)
(* [1.0, 0.0, 1.0] and the single-answer correctness_reward with solution  *)
(* "120 meters" for each returns [1.0, 1.0, 0.0].                          *)
C10_NotebookExampleScores ==
    NotebookExamples =>
        /\ called = "format_reward" => returned = <<1, 0, 1>>
        /\ called = "correctness_reward_single" => returned = <<1, 1, 0>>

C10_Witness ==
    /\ NotebookExamples
    /\ called = "correctness_reward_single"
    /\ returned = <<1, 1, 0>>
    /\ seen["format_reward"] = {<<1, 0, 1>>}

\* the content states the answer as "120 m" and not as "120 meters"
States120mNotMeters(s) ==
    Occurrences(s, "120 m") # {} /\ Occurrences(s, "120 meters") = {}

(* C11: for a completion that states the answer as "120 m" rather than     *)
(* "120 meters", the single-answer correctness_reward with ground truth    *)
(* "120 meters" returns 0.0 and the list-variant correctness_reward with   *)
(* the acceptable list ["120 m", "120.0 m", "120 meters", "120m",          *)
(* "120.0 meters"] returns 1.0 for the same completion.                    *)
C11_ListVariantAccepts120m ==
    \A i \in 1..Len(completions) :
        States120mNotMeters(Content(completions[i])) =>
            /\ (called = "correctness_reward_single" /\ i <= Len(solutions)
                    /\ solutions[i] = "120 meters") =>
                   /\ Scored(i) /\ returned[i] = 0
                   /\ correctness_reward(<<completions[i]>>, <<AcceptableAnswers>>) = <<1>>
            /\ (called = "correctness_reward" /\ i <= Len(solutions)
                    /\ solutions[i] = AcceptableAnswers) =>
                   /\ Scored(i) /\ returned[i] = 1
                   /\ correctness_reward_single(<<completions[i]>>, <<"120 meters">>) = <<0>>

C11_Witness ==
    /\ called = "correctness_reward_single"
    /\ solutions = <<"120 meters">>
    /\ States120mNotMeters(Content(completions[1]))
    /\ returned = <<0>>
    /\ correctness_reward(completions, <<AcceptableAnswers>>) = <<1>>

\* the content has a newline inside its reasoning, a second </think> and no
\* trailing text after the last </think>
NewlineExtraCloseNoTrailing(s) ==
    /\ \E n \in Occurrences(s, "\n") : \E c \in Closes(s) : n < c
    /\ Cardinality(Closes(s)) >= 2
    /\ Len(s) - Len("</think>") \in Closes(s)

(* C20: format_reward returns 1.0 for a completion exactly when its        *)
(* content (a) begins at its first character with <think>, (b) contains    *)
(* no further <think> anywhere after it, and (c) contains </think>         *)
(* somewhere after the opening tag; otherwise 0.0. Newlines, additional    *)
(* </think> tags and an empty trailing text do not change the result, and  *)
(* a <think> that starts a later line does not count as leading.           *)
C20_OneIffLeadingOnlyOpenThenClose ==
    called = "format_reward" =>
        \A i \in 1..Len(completions) :
            LET s == Content(completions[i])
                a == 0 \in Opens(s)
                b == \A k \in Opens(s) : k = 0
                c == \E j \in Closes(s) : j >= Len("<think>")
            IN  /\ Scored(i)
                /\ returned[i] = IF a /\ b /\ c THEN 1 ELSE 0

C20_Witness ==
    /\ called = "format_reward"
    /\ \E i \in 1..Len(completions) :
           /\ Opens(Content(completions[i])) = {0}
           /\ NewlineExtraCloseNoTrailing(Content(completions[i]))
           /\ Scored(i) /\ returned[i] = 1

----------------------------------------------------------------------------
(* The data cells of the three notebooks: the functions that reformat a    *)
(* dataset row, dataset.map, and the chat template.                        *)

\* the longest raw conversation, in messages
MaxTurns == 2

\* format_example, with the message copied and the new keys added to it
format_example_keeps_keys(example) ==
    [messages |->
        [j \in 1..Len(example.conversations) |->
            LET message == example.conversations[j]
            IN  [k \in DOMAIN message \cup {"role", "content"} |->
                    IF k = "role" THEN message.from
                    ELSE IF k = "content" THEN message.value
                    ELSE message[k]]]]

\* format_example, with the messages inserted at the front of the list
format_example_reversed(example) ==
    [messages |->
        [j \in 1..Len(example.conversations) |->
            LET message == example.conversations[Len(example.conversations) + 1 - j]
            IN  [role |-> message.from, content |-> message.value]]]

\* format_example, with the conversations column only renamed to messages
format_example_no_rename(example) == [messages |-> example.conversations]

\* the loop of format_example
RECURSIVE FormatExampleLoop(_, _)
FormatExampleLoop(messages, conversations) ==
    IF conversations = <<>> THEN messages
    ELSE LET message == Head(conversations)
             role == message.from
             content == message.value
         IN  FormatExampleLoop(Append(messages, [role |-> role, content |-> content]),
                               Tail(conversations))

format_example(example) == [messages |-> FormatExampleLoop(<<>>, example.conversations)]

\* to_conversation, with the space after </think> left out
to_conversation_no_space(example) ==
    [messages |->
        << [role |-> "user", content |-> example.question],
           [role |-> "assistant",
            content |-> "<think>" \o example.reasoning \o "</think>" \o example.answer] >>]

\* to_conversation, with the closing tag left out of the assistant message
to_conversation_unclosed(example) ==
    [messages |->
        << [role |-> "user", content |-> example.question],
           [role |-> "assistant",
            content |-> "<think>" \o example.reasoning \o " " \o example.answer] >>]

to_conversation(example) ==
    [messages |->
        << [role |-> "user", content |-> example.question],
           [role |-> "assistant",
            content |-> "<think>" \o example.reasoning \o "</think>" \o " " \o example.answer] >>]

\* format_dataset, with the reference answer appended as an assistant turn
format_dataset_with_answer(example) ==
    [prompt |-> << [role |-> "user", content |-> example.question],
                   [role |-> "assistant", content |-> example.solutions[1]] >>]

format_dataset(example) ==
    [prompt |-> << [role |-> "user", content |-> example.question] >>]

\* one row of dataset.map: the columns named in remove_columns are dropped and
\* the columns the function returned are added or replaced
MapRow(row, out, remove_columns) ==
    [k \in (DOMAIN row \ remove_columns) \cup DOMAIN out |->
        IF k \in DOMAIN out THEN out[k] ELSE row[k]]

\* dataset.map(function, remove_columns=...), given what the function returned per row
Map(rows, outs, remove_columns) ==
    [i \in 1..Len(rows) |-> MapRow(rows[i], outs[i], remove_columns)]

\* dataset.column_names
ColumnNames(rows) == UNION {DOMAIN rows[i] : i \in 1..Len(rows)}

\* the chat template: the fixed system block
SystemBlock == "<|im_start|>system\nYou are a helpful assistant.<|im_end|>\n"

\* message.role, message.content: an attribute the message lacks is undefined,
\* and concatenating an undefined value raises UndefinedError
HasAttributes(message) == {"role", "content"} \subseteq DOMAIN message

\* the body of the template's for loop
MessageBlock(message) ==
    "<|im_start|>" \o message.role \o "\n" \o message.content \o "<|im_end|>" \o "\n"

RECURSIVE RenderMessages(_, _)
RenderMessages(text, messages) ==
    IF messages = <<>> THEN [raised |-> "", text |-> text]
    ELSE IF ~ HasAttributes(Head(messages))
         THEN [raised |-> "UndefinedError", text |-> ""]
         ELSE RenderMessages(text \o MessageBlock(Head(messages)), Tail(messages))

\* apply_chat_template, with the generation prompt appended whatever the flag
apply_chat_template_always_prompts(messages, add_generation_prompt) ==
    LET body == RenderMessages(SystemBlock, messages)
    IN  IF body.raised # "" THEN body
        ELSE [raised |-> "", text |-> body.text \o "<|im_start|>assistant\n"]

\* tokenizer.apply_chat_template(messages, tokenize=False,
\*                               add_generation_prompt=add_generation_prompt)
apply_chat_template(messages, add_generation_prompt) ==
    LET body == RenderMessages(SystemBlock, messages)
    IN  IF body.raised # "" THEN body
        ELSE IF add_generation_prompt
             THEN [raised |-> "", text |-> body.text \o "<|im_start|>assistant\n"]
             ELSE body

----------------------------------------------------------------------------
(* The rows the datasets are drawn from. *)

\* messages of the raw conversational dataset, keyed from/value
RawMessages ==
    { [from |-> "human", value |-> "How many hearts do octopuses have?"],
      [from |-> "user", value |-> "How many hearts do octopuses have?"],
      [from |-> "assistant", value |-> "Octopuses have three hearts."],
      [from |-> "assistant", value |-> "", weight |-> "0"] }

RawRows == {[conversations |-> c] : c \in SeqsUpTo(RawMessages, MaxTurns)}

\* rows of the question / reasoning / answer dataset
RickRows ==
    { [question |-> q, reasoning |-> r, answer |-> a] :
        q \in {"What is the total displacement of the runner?", ""},
        r \in {"displacement = velocity * time", "", "8 m/s\n* 15 s", "<think>"},
        a \in {"120 meters", "", "<think>"} }

\* rows of the question / solutions dataset
PhysicsRows ==
    { [question |-> q, solutions |-> l] :
        q \in {"What is the total displacement of the runner?", ""},
        l \in BatchAnswerLists }

TwoRows(rows) == {<<a, b>> : a \in rows, b \in rows}

\* load_dataset(...) in each notebook
InitData ==
    /\ RewardsIdle
    /\ TrainIdle
    /\ BindIdle
    /\ \/ nb = "intro" /\ dataset \in TwoRows(RawRows)
       \/ nb = "sft" /\ dataset \in TwoRows(RickRows)
       \/ nb = "grpo" /\ dataset \in TwoRows(PhysicsRows)
    /\ cell = "load_dataset"
    /\ produced = <<>>
    /\ output = NoOutput

----------------------------------------------------------------------------
(* The data cells, in the order of each notebook. An exception raised by   *)
(* a cell is shown as that cell's output; no cell has a try statement.     *)

\* example = dataset["train"][0]
example == dataset[1]

\* intro: tokenizer.apply_chat_template(example["conversations"], tokenize=False)
RenderRawExample ==
    /\ nb = "intro" /\ cell = "load_dataset"
    /\ output' = apply_chat_template(example.conversations, FALSE)
    /\ cell' = "render_raw"
    /\ UNCHANGED <<rewardVars, trainVars, bindVars, nb, dataset, produced>>

\* intro: format_example(example)
ShowFormatExample ==
    /\ nb = "intro" /\ cell = "render_raw"
    /\ produced' = <<format_example(example)>>
    /\ cell' = "format_example"
    /\ UNCHANGED <<rewardVars, trainVars, bindVars, nb, dataset, output>>

\* intro: dataset = dataset.map(format_example, remove_columns="conversations")
MapFormatExample ==
    /\ nb = "intro" /\ cell = "format_example"
    /\ produced' = [i \in 1..Len(dataset) |-> format_example(dataset[i])]
    /\ dataset' = Map(dataset, produced', {"conversations"})
    /\ cell' = "map"
    /\ UNCHANGED <<rewardVars, trainVars, bindVars, nb, output>>

\* intro: example = dataset["train"][0];
\*        tokenizer.apply_chat_template(example["messages"], tokenize=False)
RenderMappedExample ==
    /\ nb = "intro" /\ cell = "map"
    /\ output' = apply_chat_template(example.messages, FALSE)
    /\ cell' = "render_mapped"
    /\ UNCHANGED <<rewardVars, trainVars, bindVars, nb, dataset, produced>>

\* sft: dataset = dataset.map(to_conversation, remove_columns=dataset.column_names)
MapToConversation ==
    /\ nb = "sft" /\ cell = "load_dataset"
    /\ produced' = [i \in 1..Len(dataset) |-> to_conversation(dataset[i])]
    /\ dataset' = Map(dataset, produced', ColumnNames(dataset))
    /\ cell' = "map"
    /\ UNCHANGED <<rewardVars, trainVars, bindVars, nb, output>>

\* grpo: dataset = dataset.map(format_dataset)
MapFormatDataset ==
    /\ nb = "grpo" /\ cell = "load_dataset"
    /\ produced' = [i \in 1..Len(dataset) |-> format_dataset(dataset[i])]
    /\ dataset' = Map(dataset, produced', {})
    /\ cell' = "map"
    /\ UNCHANGED <<rewardVars, trainVars, bindVars, nb, output>>

NextData ==
    \/ RenderRawExample
    \/ ShowFormatExample
    \/ MapFormatExample
    \/ RenderMappedExample
    \/ MapToConversation
    \/ MapFormatDataset

SpecData == InitData /\ [][NextData]_vars

----------------------------------------------------------------------------
(* Properties of the data cells. *)

\* the messages of a record returned by a mapping function
MessagesOf(record) ==
    IF "messages" \in DOMAIN record THEN record.messages ELSE record.prompt

\* a mapping function has returned
Mapped == cell \in {"format_example", "map", "render_mapped"}

(* C12: format_example turns {"conversations": [{"from": f, "value": v},   *)
(* ...]} into {"messages": [{"role": f, "content": v}, ...]}: as many      *)
(* messages, in the same order, role equal to from and content equal to    *)
(* value, and no key other than "messages".                                *)
C12_FormatExampleRenamesKeys ==
    (nb = "intro" /\ cell = "format_example") =>
        LET conversations == example.conversations
            out == produced[1]
        IN  /\ DOMAIN out = {"messages"}
            /\ Len(out.messages) = Len(conversations)
            /\ \A j \in 1..Len(conversations) :
                   /\ out.messages[j].role = conversations[j].from
                   /\ out.messages[j].content = conversations[j].value

C12_Witness ==
    /\ nb = "intro" /\ cell = "format_example"
    /\ Len(example.conversations) = 2
    /\ example.conversations[1].from # example.conversations[2].from
    /\ produced[1].messages[1].role = "human"
    /\ produced[1].messages[2].content = "Octopuses have three hearts."

(* C13: every message of every record returned by format_example,          *)
(* to_conversation or format_dataset has a role field and a content        *)
(* field, and no other field.                                              *)
C13_MessagesCarryRoleAndContent ==
    Mapped =>
        \A i \in 1..Len(produced) :
            \A j \in 1..Len(MessagesOf(produced[i])) :
                DOMAIN MessagesOf(produced[i])[j] = {"role", "content"}

C13_Witness ==
    /\ nb = "intro" /\ cell = "format_example"
    /\ \E j \in 1..Len(example.conversations) :
           /\ "weight" \in DOMAIN example.conversations[j]
           /\ DOMAIN produced[1].messages[j] = {"role", "content"}

(* C14: every record returned by format_example, to_conversation or        *)
(* format_dataset has messages whose roles are only user and assistant,    *)
(* whatever the upstream row.                                              *)
C14_RolesAreUserOrAssistant ==
    Mapped =>
        \A i \in 1..Len(produced) :
            \A j \in 1..Len(MessagesOf(produced[i])) :
                MessagesOf(produced[i])[j].role \in {"user", "assistant"}

(* C15: in the intro notebook's cell order, rendering a raw conversation   *)
(* (at least one message, keyed from/value) through the chat template      *)
(* raises UndefinedError, and the error stays the cell's result: no later  *)
(* cell catches it; once dataset.map(format_example) has run, rendering    *)
(* any conversation of the dataset through the same template succeeds.     *)
C15_RawRenderFailsMappedRenderSucceeds ==
    nb = "intro" =>
        /\ (cell \in {"render_raw", "format_example"} /\ Len(example.conversations) >= 1) =>
               output.raised = "UndefinedError"
        /\ cell \in {"map", "render_mapped"} =>
               \A i \in 1..Len(dataset) :
                   apply_chat_template(dataset[i].messages, FALSE).raised = ""
        /\ cell = "render_mapped" =>
               /\ output.raised = ""
               /\ output = apply_chat_template(produced[1].messages, FALSE)

C15_Witness ==
    /\ nb = "intro" /\ cell = "format_example"
    /\ Len(example.conversations) >= 1
    /\ output.raised = "UndefinedError"
    /\ apply_chat_template(produced[1].messages, FALSE).raised = ""

(* C16: to_conversation maps every example {question, reasoning, answer}   *)
(* to a record with exactly two messages, in this order: a user message    *)
(* whose content is the question, then an assistant message whose content  *)
(* is "<think>", the reasoning, "</think>", one space and the answer.      *)
C16_ToConversationBuildsTwoMessages ==
    [][ (nb = "sft" /\ cell = "load_dataset" /\ cell' = "map") =>
            /\ Len(produced') = Len(dataset)
            /\ \A i \in 1..Len(dataset) :
                   LET row == dataset[i]
                       out == produced'[i]
                       text == out.messages[2].content
                       r == Len("<think>") + Len(row.reasoning)
                   IN  /\ DOMAIN out = {"messages"}
                       /\ Len(out.messages) = 2
                       /\ out.messages[1] = [role |-> "user", content |-> row.question]
                       /\ out.messages[2].role = "assistant"
                       /\ Len(text) = r + Len("</think>") + 1 + Len(row.answer)
                       /\ SubSeq(text, 1, Len("<think>")) = "<think>"
                       /\ SubSeq(text, Len("<think>") + 1, r) = row.reasoning
                       /\ SubSeq(text, r + 1, r + Len("</think>")) = "</think>"
                       /\ SubSeq(text, r + Len("</think>") + 1, r + Len("</think>") + 1) = " "
                       /\ SubSeq(text, r + Len("</think>") + 2, Len(text)) = row.answer ]_vars

C16_Witness ==
    /\ nb = "sft" /\ cell = "map"
    /\ produced[1].messages =
           << [role |-> "user", content |-> "What is the total displacement of the runner?"],
              [role |-> "assistant",
               content |-> "<think>displacement = velocity * time</think> 120 meters"] >>
    /\ DOMAIN dataset[1] = {"messages"}

(* C17: format_dataset returns, for every example, only the key "prompt",  *)
(* whose value is a list of exactly one message, with role "user" and the  *)
(* example's question as content, and never an assistant turn.             *)
C17_FormatDatasetIsPromptOnly ==
    [][ (nb = "grpo" /\ cell = "load_dataset" /\ cell' = "map") =>
            /\ Len(produced') = Len(dataset)
            /\ \A i \in 1..Len(dataset) :
                   /\ DOMAIN produced'[i] = {"prompt"}
                   /\ Len(produced'[i].prompt) = 1
                   /\ produced'[i].prompt[1] = [role |-> "user", content |-> dataset[i].question]
                   /\ \A j \in 1..Len(produced'[i].prompt) :
                          produced'[i].prompt[j].role # "assistant" ]_vars

C17_Witness ==
    /\ nb = "grpo" /\ cell = "map"
    /\ produced[1] =
           [prompt |-> << [role |-> "user",
                           content |-> "What is the total displacement of the runner?"] >>]
    /\ DOMAIN dataset[1] = {"question", "solutions", "prompt"}
    /\ dataset[1].solutions = AcceptableAnswers

----------------------------------------------------------------------------
(* Gradient accumulation in the SFT notebook, and the advantages of the    *)
(* GRPO walk-through. Advantages are kept exactly, as squares of rationals *)
(* over integers, and rounded to hundredths only at the end: 0.67 is 67.   *)

\* the optimizer updates followed
MaxUpdates == 2

\* the largest group of completions drawn for one prompt
MaxGroup == 3

\* the effective batch size the notebook gives for its five configurations
EffectiveBatchSize == 16

\* the configurations the notebook lists as equivalent
ListedConfigs ==
    { [per_device_train_batch_size |-> 16, gradient_accumulation_steps |-> 1],
      [per_device_train_batch_size |-> 8, gradient_accumulation_steps |-> 2],
      [per_device_train_batch_size |-> 4, gradient_accumulation_steps |-> 4],
      [per_device_train_batch_size |-> 2, gradient_accumulation_steps |-> 8],
      [per_device_train_batch_size |-> 1, gradient_accumulation_steps |-> 16] }

\* args = SFTConfig(..., per_device_train_batch_size=4, gradient_accumulation_steps=4, ...)
SFTConfig == [per_device_train_batch_size |-> 4, gradient_accumulation_steps |-> 4]

UpdateDue_AtBatchSize(a, m) == m = a.per_device_train_batch_size

\* gradients are accumulated over gradient_accumulation_steps smaller batches,
\* then one update is made
UpdateDue(a, m) == m = a.gradient_accumulation_steps

\* rewards = [[1.0, 0.0, 0.0], [0.0, 1.0, 0.0]]
WalkthroughRewards == << <<1, 0, 0>>, <<0, 1, 0>> >>

\* advantages = [[0.67, -0.33, -0.33], [-0.33, 0.67, -0.33]], in hundredths
ListedAdvantages == << <<67, -33, -33>>, <<-33, 67, -33>> >>

RECURSIVE Sum(_)
Sum(r) == IF r = <<>> THEN 0 ELSE r[1] + Sum(Tail(r))

\* G * (r[i] - mean(r)), G the size of the group
Deviation(r, i) == Len(r) * r[i] - Sum(r)

\* G * G * (the sum over the group of (r[i] - mean(r)) squared)
SquaredDeviations(r) == Sum([i \in 1..Len(r) |-> Deviation(r, i) * Deviation(r, i)])

\* std(r) is the square root of SquaredDeviations(r) / (G * G * (G - d)):
\* it is zero, or not a number, exactly when this holds
StdUndefined(r, d) == Len(r) - d <= 0 \/ SquaredDeviations(r) = 0

\* the hundredths nearest to the square root of num / den, halves away from zero
RoundedRoot(num, den) ==
    CHOOSE m \in 0..(100 * (num + den)) :
        /\ (2 * m - 1) * (2 * m - 1) * den <= 4 * 10000 * num
        /\ 4 * 10000 * num < (2 * m + 1) * (2 * m + 1) * den

\* (r[i] - mean(r)) / std(r) to two decimals; its square is
\* Deviation(r, i) squared * (G - d) / SquaredDeviations(r)
Advantage(r, i, d) ==
    LET magnitude == RoundedRoot(Deviation(r, i) * Deviation(r, i) * (Len(r) - d),
                                 SquaredDeviations(r))
    IN  IF Deviation(r, i) < 0 THEN 0 - magnitude ELSE magnitude

\* the advantages of one group; a zero std leaves them undefined
GroupAdvantages(r, d) ==
    IF StdUndefined(r, d)
    THEN [nan |-> TRUE, hundredths |-> <<>>]
    ELSE [nan |-> FALSE, hundredths |-> [i \in 1..Len(r) |-> Advantage(r, i, d)]]

\* the groups of binary rewards of one size
Groups(G) == [1..G -> {0, 1}]

\* the rewards of two prompts, G completions each
RewardBatches == UNION { {<<a, b>> : a \in Groups(G), b \in Groups(G)} : G \in 1..MaxGroup }

InitTraining ==
    /\ nb = "sft_training"
    /\ args \in ListedConfigs \cup {SFTConfig}
    /\ group_rewards = <<>>
    /\ ddof = 0

InitWalkthrough ==
    /\ nb = "grpo_walkthrough"
    /\ args = [per_device_train_batch_size |-> 0, gradient_accumulation_steps |-> 0]
    /\ group_rewards \in RewardBatches \cup {WalkthroughRewards}
    /\ ddof \in {0, 1}

InitTrain ==
    /\ RewardsIdle
    /\ DataIdle
    /\ BindIdle
    /\ InitTraining \/ InitWalkthrough
    /\ micro = 0
    /\ samples = 0
    /\ updates = 0
    /\ effective = 0
    /\ advantages = <<>>

\* one forward and backward pass over a batch of per_device_train_batch_size
\* examples, followed by the optimizer update when it is due
TrainingStep ==
    /\ nb = "sft_training"
    /\ updates < MaxUpdates
    /\ IF UpdateDue(args, micro + 1)
       THEN /\ effective' = samples + args.per_device_train_batch_size
            /\ updates' = updates + 1
            /\ micro' = 0
            /\ samples' = 0
       ELSE /\ micro' = micro + 1
            /\ samples' = samples + args.per_device_train_batch_size
            /\ UNCHANGED <<effective, updates>>
    /\ UNCHANGED <<args, group_rewards, ddof, advantages>>
    /\ UNCHANGED <<rewardVars, nb, dataVars, bindVars>>

\* step 4 of the walk-through: normalize the rewards within each group
ComputeAdvantages ==
    /\ nb = "grpo_walkthrough"
    /\ advantages = <<>>
    /\ advantages' = [g \in 1..Len(group_rewards) |-> GroupAdvantages(group_rewards[g], ddof)]
    /\ UNCHANGED <<args, micro, samples, updates, effective, group_rewards, ddof>>
    /\ UNCHANGED <<rewardVars, nb, dataVars, bindVars>>

NextTrain == TrainingStep \/ ComputeAdvantages

SpecTrain == InitTrain /\ [][NextTrain]_vars

----------------------------------------------------------------------------
(* Properties of the batch size and of the advantages. *)

(* C18: every one of the five listed configurations, (16,1), (8,2), (4,4),  *)
(* (2,8) and (1,16), makes each optimizer update from 16 examples, and the *)
(* configuration passed to SFTConfig in the training cell, (4,4), is one   *)
(* of them.                                                                *)
C18_ListedConfigsHaveEffectiveBatch16 ==
    /\ SFTConfig \in ListedConfigs
    /\ Cardinality(ListedConfigs) = 5
    /\ nb = "sft_training" =>
           /\ args \in ListedConfigs
           /\ updates > 0 => effective = EffectiveBatchSize
           /\ samples = micro * args.per_device_train_batch_size
           /\ samples < EffectiveBatchSize

\* the second update with one example per batch and sixteen batches per update
C18_Witness ==
    /\ nb = "sft_training"
    /\ args = [per_device_train_batch_size |-> 1, gradient_accumulation_steps |-> 16]
    /\ updates = 2
    /\ effective = 16

(* C19: normalizing the rewards [1.0, 0.0, 0.0] with (r - mean(r)) / std(r) *)
(* gives the advantages [0.67, -0.33, -0.33] to two decimals, and          *)
(* [0.0, 1.0, 0.0] gives [-0.33, 0.67, -0.33].                             *)
C19_FormulaYieldsListedAdvantages ==
    (nb = "grpo_walkthrough" /\ group_rewards = WalkthroughRewards /\ advantages # <<>>) =>
        \A g \in 1..Len(group_rewards) :
            /\ ~advantages[g].nan
            /\ advantages[g].hundredths = ListedAdvantages[g]

----------------------------------------------------------------------------
(* Further properties of the reward functions, under Spec. *)

\* the pair (format score, correctness score) of a content for a list of variants
ScorePair(c, variants) ==
    << format_reward(<<Completion(c)>>)[1],
       correctness_reward(<<Completion(c)>>, <<variants>>)[1] >>

ScorePairs == {0, 1} \X {0, 1}

\* contents built from the tags and the list's own variants
TagAndVariantContents(variants) ==
    {"", "<think></think>"}
        \cup {variants[k] : k \in 1..Len(variants)}
        \cup {"<think></think>" \o variants[k] : k \in 1..Len(variants)}

\* every variant is non-empty, contains no <think> and does not occur in
\* "<think></think>"
ApartFromTags(variants) ==
    \A k \in 1..Len(variants) :
        /\ variants[k] # ""
        /\ ~contains(variants[k], "<think>")
        /\ ~contains("<think></think>", variants[k])

\* two contents in which the same variants of the list occur
SameVariantsOccur(c, d, variants) ==
    \A k \in 1..Len(variants) : contains(c, variants[k]) <=> contains(d, variants[k])

\* format_reward's scores ignore the solution column, and the list-variant
\* correctness_reward's scores ignore whether the content is well-formed
ScoresAreIndependent ==
    /\ called = "format_reward" =>
           \A i, j \in 1..Len(returned) :
               Content(completions[i]) = Content(completions[j]) => returned[i] = returned[j]
    /\ called = "correctness_reward" =>
           \A i, j \in 1..Len(returned) :
               (/\ solutions[i] = solutions[j]
                /\ SameVariantsOccur(Content(completions[i]), Content(completions[j]),
                                     solutions[i]))
                   => returned[i] = returned[j]

(* C21 as stated: the two scores are independent, and for every non-empty *)
(* list of acceptable answers each of the four score pairs is produced by *)
(* some completion. Fails for the list [""], which occurs in every         *)
(* content.                                                                *)
C21_EveryNonEmptyListGivesFourPairs ==
    /\ ScoresAreIndependent
    /\ (/\ ncalls = 0 /\ column = "solutions"
        /\ completions = <<Completion("")>>
        /\ Len(solutions) = 1 /\ solutions[1] # <<>>)
           => \A pair \in ScorePairs :
                  \E c \in GeneratedContents \cup TagAndVariantContents(solutions[1]) :
                      ScorePair(c, solutions[1]) = pair

(* C21, amended: format_reward's score does not depend on the solution    *)
(* list, correctness_reward's score does not depend on whether the        *)
(* completion is well-formed, and each of the four score pairs is         *)
(* produced by some completion for the notebook's list of acceptable      *)
(* answers and for every fixed non-empty list whose variants are          *)
(* non-empty, contain no <think> and do not occur in "<think></think>".   *)
C21_ScoresIndependentAndFourPairs ==
    /\ ScoresAreIndependent
    /\ ApartFromTags(AcceptableAnswers)
    /\ (/\ ncalls = 0 /\ column = "solutions"
        /\ Len(solutions) >= 1 /\ solutions[1] # <<>> /\ ApartFromTags(solutions[1]))
           => \A pair \in ScorePairs :
                  \E c \in TagAndVariantContents(solutions[1]) :
                      ScorePair(c, solutions[1]) = pair

\* completion_1 and completion_2 with the same list: one well-formed, one
\* not, both correct; format_reward has given them different scores
C21_Witness ==
    /\ called = "correctness_reward"
    /\ completions = <<completion_1, completion_2>>
    /\ solutions = <<AcceptableAnswers, AcceptableAnswers>>
    /\ returned = <<1, 1>>
    /\ seen["format_reward"] = {<<1, 0>>}

\* the text between the leading <think> and the first </think> after it
ThinkBlock(s) ==
    LET close == CHOOSE p \in Closes(s) : \A q \in Closes(s) : p <= q
    IN  Slice(s, Len("<think>"), close)

\* the text after the last </think>: the final answer
FinalAnswer(s) ==
    LET close == CHOOSE p \in Closes(s) : \A q \in Closes(s) : q <= p
    IN  Slice(s, close + Len("</think>"), Len(s))

Letters ==
    {"a", "b", "c", "d", "e", "f", "g", "h", "i", "j", "k", "l", "m",
     "n", "o", "p", "q", "r", "s", "t", "u", "v", "w", "x", "y", "z"}

\* a non-empty variant occurs in s only as the beginning of a longer word
OnlyAsPrefixOfLongerWord(s, variants) ==
    /\ SomeVariantOccurs(s, variants)
    /\ \A k \in 1..Len(variants) :
           /\ Occurrences(s, variants[k]) # {} => variants[k] # ""
           /\ \A p \in Occurrences(s, variants[k]) :
                  /\ p + Len(variants[k]) < Len(s)
                  /\ Slice(s, p + Len(variants[k]), p + Len(variants[k]) + 1) \in Letters

(* C23: correctness_reward does not look at where a variant occurs: a     *)
(* completion whose think block contains an acceptable variant and whose  *)
(* final answer after the block contains none scores 1.0, and so does a   *)
(* completion in which a variant occurs only as the beginning of a        *)
(* longer word ("120 m" inside "120 miles").                               *)
C23_PlaceOfVariantIsIgnored ==
    called = "correctness_reward" =>
        \A i \in 1..Min(Len(completions), Len(solutions)) :
            LET s == Content(completions[i])
            IN  /\ (/\ ExactlyOneLeadingSpan(s)
                    /\ SomeVariantOccurs(ThinkBlock(s), solutions[i])
                    /\ ~SomeVariantOccurs(FinalAnswer(s), solutions[i]))
                       => Scored(i) /\ returned[i] = 1
                /\ OnlyAsPrefixOfLongerWord(s, solutions[i]) => Scored(i) /\ returned[i] = 1

\* a batch of both cases: the variant in the think block with "80 meters" as
\* final answer, and "120 miles"
C23_Witness ==
    /\ called = "correctness_reward"
    /\ Len(completions) = 2 /\ Len(solutions) = 2 /\ returned = <<1, 1>>
    /\ LET s == Content(completions[1])
       IN  /\ ExactlyOneLeadingSpan(s)
           /\ SomeVariantOccurs(ThinkBlock(s), solutions[1])
           /\ ~SomeVariantOccurs(FinalAnswer(s), solutions[1])
           /\ contains(FinalAnswer(s), "80 meters")
    /\ ~contains(Content(completions[2]), "<think>")
    /\ contains(Content(completions[2]), "120 miles")
    /\ OnlyAsPrefixOfLongerWord(Content(completions[2]), solutions[2])

\* the score of one completion for one list of variants
ListScore(completion, variants) == correctness_reward(<<completion>>, <<variants>>)[1]

(* C24: correctness_reward is monotone in the list of acceptable answers: *)
(* for a fixed completion, adding a variant to the list, before or after  *)
(* the ones it has, never changes a 1.0 into a 0.0; an empty list scores  *)
(* 0.0, and a list containing the empty string scores 1.0, for every      *)
(* completion.                                                             *)
C24_MonotoneInAnswerList ==
    called = "correctness_reward" =>
        \A i \in 1..Min(Len(completions), Len(solutions)) :
            /\ Scored(i)
            /\ solutions[i] = <<>> => returned[i] = 0
            /\ (\E k \in 1..Len(solutions[i]) : solutions[i][k] = "") => returned[i] = 1
            /\ returned[i] = 1 =>
                   \A added \in {l \in AnswerLists : Len(l) <= 1} :
                       /\ ListScore(completions[i], solutions[i] \o added) = 1
                       /\ ListScore(completions[i], added \o solutions[i]) = 1
            /\ returned[i] = 0 =>
                   \A k \in 1..Len(solutions[i]) :
                       ListScore(completions[i], SubSeq(solutions[i], 1, k)) = 0

\* a completion that states "120 m" and not "80 meters", scored 1.0 for the
\* list that has "80 meters" before "120 m"
C24_Witness ==
    /\ called = "correctness_reward"
    /\ Len(completions) = 1
    /\ solutions = << <<"80 meters", "120 m">> >>
    /\ contains(Content(completions[1]), "120 m")
    /\ ~contains(Content(completions[1]), "80 meters")
    /\ returned = <<1>>

(* C25: both reward functions score a completion from the content of its *)
(* first message only: two completions of a batch that agree on that      *)
(* content, whatever the role of the first message and whatever messages  *)
(* follow it, get the same format score, and with the same list of        *)
(* acceptable answers the same correctness score.                         *)
C25_OnlyFirstContentIsScored ==
    /\ called = "format_reward" =>
           \A i, j \in 1..Len(completions) :
               completions[i][1].content = completions[j][1].content =>
                   Scored(i) /\ Scored(j) /\ returned[i] = returned[j]
    /\ called = "correctness_reward" =>
           \A i, j \in 1..Min(Len(completions), Len(solutions)) :
               (completions[i][1].content = completions[j][1].content /\ solutions[i] = solutions[j])
                   => Scored(i) /\ Scored(j) /\ returned[i] = returned[j]

\* two completions with the same first content: a single user message, and
\* an assistant message followed by a message that alone would score 1.0
C25_Witness ==
    /\ called = "correctness_reward"
    /\ Len(completions) = 2
    /\ completions[1][1].content = "<think>"
    /\ completions[2][1].content = "<think>"
    /\ completions[1][1].role = "user"
    /\ Len(completions[2]) = 2
    /\ completions[2][2].content = "<think></think>120 m"
    /\ solutions = << <<"120 m">>, <<"120 m">> >>
    /\ returned = <<0, 0>>
    /\ seen["format_reward"] = {<<0, 0>>}

----------------------------------------------------------------------------
(* The reward functions called on batches in which a completion may be     *)
(* malformed.                                                              *)

\* a completion with no messages, and one whose first message has no content
MalformedCompletions == { <<>>, <<[role |-> "assistant"]>> }

WellFormedCompletions == { Completion("<think></think>120 m"), Completion("120 m") }

\* a batch of at most MaxBatch completions, and a column that may be shorter
InitErr ==
    /\ completions \in SeqsUpTo(MalformedCompletions \cup WellFormedCompletions, MaxBatch)
    /\ \/ column = "solutions" /\ solutions \in SeqsUpTo({<<"120 m">>, <<>>}, MaxBatch)
       \/ column = "solution" /\ solutions \in SeqsUpTo({"120 m"}, MaxBatch)
    /\ called = "none"
    /\ returned = <<>>
    /\ seen = [f \in RewardFunctions |-> {}]
    /\ ncalls = 0
    /\ raised = ""
    /\ nb = "grpo_errors"
    /\ DataIdle
    /\ TrainIdle
    /\ BindIdle

SpecErr == InitErr /\ [][Next]_vars

\* the completion has no messages, or a first message without a content field
Malformed(completion) == completion = <<>> \/ "content" \notin DOMAIN completion[1]

SomeMalformed(cs) == \E i \in 1..Len(cs) : Malformed(cs[i])

\* the completions the function called last goes through
Visited ==
    IF called = "format_reward" THEN completions
    ELSE SubSeq(completions, 1, Min(Len(completions), Len(solutions)))

(* C26 as stated: when any completion of the batch has no messages or a   *)
(* first message without a content field, the call ends in an error.      *)
(* Fails for correctness_reward when the malformed completion lies beyond *)
(* the end of a shorter solution column: zip never reaches it.            *)
C26_AnyMalformedCompletionRaises ==
    (called \in RewardFunctions /\ SomeMalformed(completions)) =>
        /\ raised # ""
        /\ seen[called] = {}

(* C26, amended: the reward functions have no error handling: when any    *)
(* completion the call goes through (every completion of the batch for    *)
(* format_reward, the first min(len(completions), len(column)) for        *)
(* correctness_reward) has no messages or a first message without a       *)
(* content field, the call ends in an error and returns no reward list at *)
(* all, even if every other completion is well-formed; otherwise it       *)
(* returns one reward per completion it went through.                     *)
C26_MalformedVisitedCompletionRaises ==
    called \in RewardFunctions =>
        IF SomeMalformed(Visited)
        THEN /\ raised \in {"IndexError", "KeyError"}
             /\ seen[called] = {}
        ELSE /\ raised = ""
             /\ Len(returned) = Len(Visited)
             /\ seen[called] = {returned}

\* a well-formed completion followed by one whose first message has no content
C26_Witness ==
    /\ called = "format_reward"
    /\ Len(completions) = 2
    /\ completions[1] \in WellFormedCompletions
    /\ completions[2] = <<[role |-> "assistant"]>>
    /\ raised = "KeyError"
    /\ seen["format_reward"] = {}
    /\ returned = <<>>

----------------------------------------------------------------------------
(* The GRPO reward functions applied to SFT targets: the inputs are rows   *)
(* of the question / reasoning / answer dataset, and the completions they *)
(* are called on are the assistant messages to_conversation builds for    *)
(* those rows. No cell of the notebooks makes these calls; the            *)
(* specification draws the inputs of the two functions from the outputs   *)
(* of the third.                                                           *)

\* lists of acceptable answers the targets are compared to
TargetLists == { AcceptableAnswers, <<"80 meters">>, <<"", "<think>">> }

\* the completion a row stands for: the messages of to_conversation(row)
\* after the user message
Target(row) == Tail(to_conversation(row).messages)

\* two rows as loaded, and as arguments of the reward functions their
\* targets with one list of acceptable answers
InitTarget ==
    /\ nb = "sft_target"
    /\ dataset \in TwoRows(RickRows)
    /\ cell = "load_dataset"
    /\ produced = <<>>
    /\ output = NoOutput
    /\ completions = [i \in 1..Len(dataset) |-> Target(dataset[i])]
    /\ column = "solutions"
    /\ solutions \in {[i \in 1..Len(dataset) |-> l] : l \in TargetLists}
    /\ called = "none"
    /\ returned = <<>>
    /\ seen = [f \in RewardFunctions |-> {}]
    /\ ncalls = 0
    /\ raised = ""
    /\ TrainIdle
    /\ BindIdle

NextTarget == CallFormatReward \/ CallCorrectnessReward

SpecTarget == InitTarget /\ [][NextTarget]_vars

\* neither the reasoning nor the answer of the row contains "<think>"
NoThinkInRow(row) == Opens(row.reasoning) = {} /\ Opens(row.answer) = {}

(* C22: the assistant message built by to_conversation scores 1.0 under   *)
(* format_reward for every example whose reasoning and answer contain no  *)
(* "<think>", and 0.0 if either contains one; it scores 1.0 under         *)
(* correctness_reward whenever the example's answer is one of the         *)
(* acceptable variants.                                                    *)
C22_TargetsAgreeWithRewards ==
    nb = "sft_target" =>
        /\ called = "format_reward" =>
               /\ Len(returned) = Len(dataset)
               /\ \A i \in 1..Len(dataset) :
                      returned[i] = IF NoThinkInRow(dataset[i]) THEN 1 ELSE 0
        /\ called = "correctness_reward" =>
               /\ Len(returned) = Len(dataset)
               /\ \A i \in 1..Len(dataset) :
                      (\E k \in 1..Len(solutions[i]) : solutions[i][k] = dataset[i].answer)
                          => returned[i] = 1

\* a row with a two-line reasoning and the answer "120 meters", and a row
\* whose reasoning is "<think>", both scored by both functions
C22_Witness ==
    /\ nb = "sft_target"
    /\ dataset[1].reasoning = "8 m/s\n* 15 s"
    /\ dataset[1].answer = "120 meters"
    /\ dataset[2].reasoning = "<think>"
    /\ dataset[2].answer = "120 meters"
    /\ completions[1] = << [role |-> "assistant",
                            content |-> "<think>8 m/s\n* 15 s</think> 120 meters"] >>
    /\ solutions[1] = AcceptableAnswers
    /\ called = "correctness_reward"
    /\ returned = <<1, 1>>
    /\ seen["format_reward"] = {<<1, 0>>}

----------------------------------------------------------------------------
(* The cells of the GRPO notebook that define and use the reward           *)
(* functions, run in the notebook's order.                                 *)

\* the calls made by the cells before the trainer is built
NotebookCalls == 3

\* Bind, with a name that is already bound keeping its first function
Bind_KeepFirst(namespace, name, function) ==
    IF namespace[name] = "undefined" THEN [namespace EXCEPT ![name] = function]
    ELSE namespace

\* `def name(...)`: the name is bound to the new function, whatever it was bound to
Bind(namespace, name, function) == [namespace EXCEPT ![name] = function]

\* the outcome of function(completions, <keyword>=column): the first
\* definition of correctness_reward requires `solution`, the second `solutions`
Apply(function, cs, keyword, col) ==
    IF function = "undefined"
    THEN [raised |-> "NameError", rewards |-> <<>>]
    ELSE IF \/ function = "correctness_reward_single" /\ keyword # "solution"
            \/ function = "correctness_reward" /\ keyword # "solutions"
    THEN [raised |-> "TypeError", rewards |-> <<>>]
    ELSE IF FirstError(IF function = "format_reward" THEN cs ELSE Zipped(cs, col)) # ""
    THEN [raised |-> FirstError(IF function = "format_reward" THEN cs ELSE Zipped(cs, col)),
          rewards |-> <<>>]
    ELSE [raised |-> "",
          rewards |-> IF function = "format_reward" THEN format_reward(cs)
                      ELSE IF function = "correctness_reward_single"
                           THEN correctness_reward_single(cs, col)
                           ELSE correctness_reward(cs, col)]

\* a call written in a cell, or made by the trainer
CellCall(function, cs, keyword, col) ==
    LET result == Apply(function, cs, keyword, col)
    IN  /\ completions' = cs
        /\ solutions' = col
        /\ column' = keyword
        /\ ncalls' = ncalls + 1
        /\ called' = function
        /\ raised' = result.raised
        /\ IF result.raised = ""
           THEN /\ returned' = result.rewards
                /\ seen' = [seen EXCEPT ![function] = @ \cup {result.rewards}]
           ELSE UNCHANGED <<returned, seen>>

InitCells ==
    /\ nb = "grpo_cells"
    /\ RewardsIdle
    /\ DataIdle
    /\ TrainIdle
    /\ BindIdle

\* def format_reward(...); format_reward([completion_1, completion_2, completion_3])
RunFormatRewardCell ==
    /\ nb = "grpo_cells" /\ cell = "none"
    /\ globals' = Bind(globals, "format_reward", "format_reward")
    /\ CellCall(globals'["format_reward"], <<completion_1, completion_2, completion_3>>,
                "none", <<>>)
    /\ cell' = "format_reward"
    /\ UNCHANGED <<reward_funcs, nb, dataset, produced, output, trainVars>>

\* def correctness_reward(completions, solution, **kwargs); correctness_reward(..., solution=[...])
RunCorrectnessRewardSingleCell ==
    /\ nb = "grpo_cells" /\ cell = "format_reward"
    /\ globals' = Bind(globals, "correctness_reward", "correctness_reward_single")
    /\ CellCall(globals'["correctness_reward"], <<completion_1, completion_2, completion_3>>,
                "solution", <<"120 meters", "120 meters", "120 meters">>)
    /\ cell' = "correctness_reward_single"
    /\ UNCHANGED <<reward_funcs, nb, dataset, produced, output, trainVars>>

\* def correctness_reward(completions, solutions, **kwargs)
RunCorrectnessRewardCell ==
    /\ nb = "grpo_cells" /\ cell = "correctness_reward_single"
    /\ globals' = Bind(globals, "correctness_reward", "correctness_reward")
    /\ cell' = "correctness_reward"
    /\ UNCHANGED <<rewardVars, reward_funcs, nb, dataset, produced, output, trainVars>>

\* correctness_reward([completion_1], solutions=[[...]])
RunUsageCell ==
    /\ nb = "grpo_cells" /\ cell = "correctness_reward"
    /\ CellCall(globals["correctness_reward"], <<completion_1>>, "solutions",
                <<AcceptableAnswers>>)
    /\ cell' = "usage"
    /\ UNCHANGED <<bindVars, nb, dataset, produced, output, trainVars>>

\* dataset = load_dataset("qgallouedec/rick-physics-grpo", split="train")
RunLoadDatasetCell ==
    /\ nb = "grpo_cells" /\ cell = "usage"
    /\ dataset' \in TwoRows(PhysicsRows)
    /\ cell' = "load_dataset"
    /\ UNCHANGED <<rewardVars, bindVars, nb, produced, output, trainVars>>

\* dataset = dataset.map(format_dataset)
RunMapCell ==
    /\ nb = "grpo_cells" /\ cell = "load_dataset"
    /\ produced' = [i \in 1..Len(dataset) |-> format_dataset(dataset[i])]
    /\ dataset' = Map(dataset, produced', {})
    /\ cell' = "map"
    /\ UNCHANGED <<rewardVars, bindVars, nb, output, trainVars>>

\* trainer = GRPOTrainer(..., reward_funcs=[format_reward, correctness_reward], ...):
\* the list holds the functions the two names are bound to when the cell runs
RunTrainerCell ==
    /\ nb = "grpo_cells" /\ cell = "map"
    /\ reward_funcs' = <<globals["format_reward"], globals["correctness_reward"]>>
    /\ cell' = "trainer"
    /\ UNCHANGED <<rewardVars, globals, nb, dataset, produced, output, trainVars>>

\* trainer.train(): the trainer calls one of its reward functions on one
\* completion per row, passing the rows' solutions column by keyword
TrainerComputesRewards ==
    /\ nb = "grpo_cells" /\ cell = "trainer"
    /\ ncalls < NotebookCalls + MaxCalls
    /\ \E k \in 1..Len(reward_funcs), cs \in [1..Len(dataset) -> WellFormedCompletions] :
           CellCall(reward_funcs[k], cs, "solutions",
                    [i \in 1..Len(dataset) |-> dataset[i].solutions])
    /\ UNCHANGED <<bindVars, nb, cell, dataset, produced, output, trainVars>>

NextCells ==
    \/ RunFormatRewardCell
    \/ RunCorrectnessRewardSingleCell
    \/ RunCorrectnessRewardCell
    \/ RunUsageCell
    \/ RunLoadDatasetCell
    \/ RunMapCell
    \/ RunTrainerCell
    \/ TrainerComputesRewards

SpecCells == InitCells /\ [][NextCells]_vars

(* C27: when the cells run in order, the second definition of             *)
(* correctness_reward (a list of acceptable variants, parameter           *)
(* solutions) replaces the first (a single answer, parameter solution)    *)
(* before the trainer is built, so GRPOTrainer receives reward_funcs =    *)
(* [format_reward, list-variant correctness_reward] in that order, and    *)
(* the single-answer version is never the one called in training.         *)
C27_TrainerGetsListVariant ==
    nb = "grpo_cells" =>
        /\ cell = "correctness_reward_single" =>
               globals["correctness_reward"] = "correctness_reward_single"
        /\ cell \in {"correctness_reward", "usage", "load_dataset", "map", "trainer"} =>
               globals["correctness_reward"] = "correctness_reward"
        /\ cell # "trainer" => reward_funcs = <<>>
        /\ cell = "trainer" => reward_funcs = <<"format_reward", "correctness_reward">>
        /\ (cell = "trainer" /\ ncalls > NotebookCalls) =>
               /\ called \in {"format_reward", "correctness_reward"}
               /\ raised = ""
               /\ Len(returned) = Len(dataset)

\* the trainer has called the list variant; the single-answer version was
\* called once, by its own cell
C27_Witness ==
    /\ nb = "grpo_cells" /\ cell = "trainer"
    /\ ncalls > NotebookCalls
    /\ called = "correctness_reward"
    /\ returned = <<1, 0>>
    /\ seen["correctness_reward_single"] = {<<1, 1, 0>>}
    /\ reward_funcs = <<"format_reward", "correctness_reward">>

----------------------------------------------------------------------------
(* The chat template applied to lists of messages, without the generation  *)
(* prompt (apply_chat_template(messages, tokenize=False)) and with it (the *)
(* pipeline called on a list of messages).                                 *)

\* the hand-written templated prompt of the intro notebook
prompt ==
    "<|im_start|>system\nYou are a helpful assistant.<|im_end|>\n<|im_start|>user\nHow many hearts do octopuses have?<|im_end|>\n<|im_start|>assistant\n"

\* messages with role and content
TemplateMessages ==
    { [role |-> r, content |-> c] :
        r \in {"user", "assistant"},
        c \in {"How many hearts do octopuses have?", "Octopuses have three hearts.", ""} }

InitTemplate ==
    /\ nb = "template"
    /\ dataset \in {<<[messages |-> m]>> : m \in SeqsUpTo(TemplateMessages, MaxTurns)}
    /\ cell = "messages"
    /\ produced = <<>>
    /\ output = NoOutput
    /\ RewardsIdle
    /\ TrainIdle
    /\ BindIdle

\* print(tokenizer.apply_chat_template(messages, tokenize=False))
ApplyChatTemplate ==
    /\ nb = "template"
    /\ output' = apply_chat_template(dataset[1].messages, FALSE)
    /\ cell' = "apply_chat_template"
    /\ UNCHANGED <<rewardVars, trainVars, bindVars, nb, dataset, produced>>

\* pipeline(messages, ...): the pipeline applies the template with
\* add_generation_prompt=True before generating
PipelineAppliesTemplate ==
    /\ nb = "template"
    /\ output' = apply_chat_template(dataset[1].messages, TRUE)
    /\ cell' = "pipeline"
    /\ UNCHANGED <<rewardVars, trainVars, bindVars, nb, dataset, produced>>

NextTemplate == ApplyChatTemplate \/ PipelineAppliesTemplate

SpecTemplate == InitTemplate /\ [][NextTemplate]_vars

\* the block of one message, as the claim words it
Block(message) ==
    Join(<<"<|im_start|>", message.role, "\n", message.content, "<|im_end|>", "\n">>)

(* C28: the template renders a list of N messages as the fixed system     *)
(* block, followed by exactly N blocks "<|im_start|>" + role + newline +  *)
(* content + "<|im_end|>" + newline in the messages' order, followed by   *)
(* "<|im_start|>assistant" + newline if and only if add_generation_prompt *)
(* is set; the single user message "How many hearts do octopuses have?"   *)
(* rendered with the generation prompt equals the hand-written prompt of  *)
(* the intro notebook character for character.                            *)
C28_TemplateRendersBlocksInOrder ==
    (nb = "template" /\ cell \in {"apply_chat_template", "pipeline"}) =>
        LET messages == dataset[1].messages
            N == Len(messages)
            system == "<|im_start|>system\nYou are a helpful assistant.<|im_end|>\n"
            blocks == Join([i \in 1..N |-> Block(messages[i])])
            generation == "<|im_start|>assistant\n"
            text == output.text
        IN  /\ output.raised = ""
            /\ text = system \o blocks \o (IF cell = "pipeline" THEN generation ELSE "")
            /\ Cardinality(Occurrences(text, "<|im_start|>")) =
                   1 + N + (IF cell = "pipeline" THEN 1 ELSE 0)
            /\ Cardinality(Occurrences(text, "<|im_end|>\n")) = 1 + N
            /\ (/\ cell = "pipeline"
                /\ messages = << [role |-> "user",
                                  content |-> "How many hearts do octopuses have?"] >>)
                   => /\ text = prompt
                      /\ Len(text) = Len(prompt)

\* the question alone, rendered with the generation prompt
C28_Witness ==
    /\ nb = "template" /\ cell = "pipeline"
    /\ dataset[1].messages =
           << [role |-> "user", content |-> "How many hearts do octopuses have?"] >>
    /\ output = [raised |-> "", text |-> prompt]

====
